---- MODULE Spec2Model ----
(***************************************************************************)
(* Model of the grammar equivalence checker (src/main.py).                 *)
(*                                                                         *)
(* A string is a sequence of one-character symbols: "ab" is <<"a","b">>.   *)
(* A grammar is a dictionary from keys (strings) to productions (strings). *)
(* Every grammar the program handles has passed through list(set(...)),    *)
(* so a grammar is kept here as key -> SET of productions, and every use   *)
(* that iterates a production list first picks an arbitrary listing of it. *)
(***************************************************************************)
EXTENDS Integers, Sequences, FiniteSets, TLC

\* ------------------------------------------------------------------------
\* Bounds of the model
\* ------------------------------------------------------------------------
MaxDepth == 3
MaxLen == 3

\* ------------------------------------------------------------------------
\* Symbols and strings
\* ------------------------------------------------------------------------
Upper == {"S", "T", "A", "B", "C", "D", "E", "F", "X", "Y", "Z"}

\* the range test 'A' <= c < 'Z' in place of c.isupper()
isupper_below_Z(c) == c \in Upper \ {"Z"}

\* c.isupper() on one character
isupper(c) == c \in Upper

\* all(not c.isupper() for c in derivacion)
all_terminal(derivacion) ==
  \A i \in 1..Len(derivacion) : ~isupper(derivacion[i])

\* derivacion.replace('*', '')
RECURSIVE strip_epsilon(_)
strip_epsilon(derivacion) ==
  IF derivacion = <<>> THEN <<>>
  ELSE IF Head(derivacion) = "*" THEN strip_epsilon(Tail(derivacion))
  ELSE <<Head(derivacion)>> \o strip_epsilon(Tail(derivacion))

\* index of the first non-terminal of derivacion (the for/break loop)
first_nt_index(derivacion) ==
  CHOOSE i \in 1..Len(derivacion) :
    /\ isupper(derivacion[i])
    /\ \A j \in 1..(i-1) : ~isupper(derivacion[j])

\* derivacion[:i] + prod + derivacion[i+1:]   (i is 1-based here)
substitute(derivacion, i, prod) ==
  SubSeq(derivacion, 1, i-1) \o prod \o SubSeq(derivacion, i+1, Len(derivacion))

\* ------------------------------------------------------------------------
\* Iteration orders of unordered collections
\* ------------------------------------------------------------------------
\* every order in which list(set(...)) / iteration over a set may come out
Orderings(S) ==
  {s \in [1..Cardinality(S) -> S] :
     \A i, j \in 1..Cardinality(S) : i # j => s[i] # s[j]}

\* every dictionary of production lists a dictionary of production sets
\* may be stored as
RECURSIVE Listings(_)
Listings(g) ==
  IF DOMAIN g = {} THEN {<<>>}
  ELSE LET k == CHOOSE x \in DOMAIN g : TRUE
           rest == [x \in DOMAIN g \ {k} |-> g[x]]
       IN {(k :> o) @@ r : o \in Orderings(g[k]), r \in Listings(rest)}

\* one fixed listing, used where the program's answer is computed as a value
AsLists(g) == [k \in DOMAIN g |-> CHOOSE o \in Orderings(g[k]) : TRUE]

\* ------------------------------------------------------------------------
\* generate_strings: one iteration of the while loop, and the whole loop
\* ------------------------------------------------------------------------
DefaultMaxLen == 15

\* cola.pop() in place of cola.popleft(): the queue used as a stack
pop_right(cola) == <<cola[Len(cola)], SubSeq(cola, 1, Len(cola) - 1)>>

\* cola.popleft(): the element taken and the queue left
popleft(cola) == <<Head(cola), Tail(cola)>>

\* the length test off by one
too_long_by_two(derivacion, max_len) == Len(derivacion) > max_len + 1

\* len(derivacion) > max_len
too_long(derivacion, max_len) == Len(derivacion) > max_len

\* the expansion is cut one level too late
depth_reached_late(profundidad, max_depth) == profundidad > max_depth

\* profundidad >= max_depth
depth_reached(profundidad, max_depth) == profundidad >= max_depth

\* the for loop appending one new derivation per production of nt
expand(glist, derivacion, i, profundidad) ==
  LET prods == glist[<<derivacion[i]>>]
  IN [k \in 1..Len(prods) |->
        <<substitute(derivacion, i, prods[k]), profundidad + 1>>]

\* body of the while loop on the loop state b = (cola, visited, resultados)
loop_body(glist, b, max_depth, max_len) ==
  LET popped == popleft(b.cola)
      derivacion == popped[1][1]
      profundidad == popped[1][2]
      rest == popped[2]
  IN IF too_long(derivacion, max_len) \/ derivacion \in b.visited
       THEN [b EXCEPT !.cola = rest]
     ELSE LET seen == b.visited \cup {derivacion}
          IN IF all_terminal(derivacion)
               THEN [cola |-> rest, visited |-> seen,
                     resultados |-> b.resultados \cup {strip_epsilon(derivacion)}]
             ELSE IF depth_reached(profundidad, max_depth)
               THEN [cola |-> rest, visited |-> seen, resultados |-> b.resultados]
             ELSE IF <<derivacion[first_nt_index(derivacion)]>> \notin DOMAIN glist
               THEN [cola |-> rest, visited |-> seen, resultados |-> b.resultados]
             ELSE [cola |-> rest \o expand(glist, derivacion,
                                           first_nt_index(derivacion), profundidad),
                   visited |-> seen, resultados |-> b.resultados]

\* state of the loop before its first iteration
loop_start(start) ==
  [cola |-> << <<start, 0>> >>, visited |-> {}, resultados |-> {}]

RECURSIVE run_loop(_, _, _, _)
run_loop(glist, b, max_depth, max_len) ==
  IF b.cola = <<>> THEN b.resultados
  ELSE run_loop(glist, loop_body(glist, b, max_depth, max_len), max_depth, max_len)

\* generate_strings(grammar, start, max_depth, max_len) as a value
generate_strings(grammar, start, max_depth, max_len) ==
  run_loop(AsLists(grammar), loop_start(start), max_depth, max_len)

\* ------------------------------------------------------------------------
\* apply_mapping
\* ------------------------------------------------------------------------
\* the value try_symbol_mappings returns when it finds nothing (None);
\* like None it is falsy, and no mapping the search builds is empty
None == <<>>

\* `if mapping:`
truthy(mapping) == DOMAIN mapping # {}

\* the else branch forgotten: a character that is not mapped is lost
map_symbol_drop(c, mapping) ==
  IF isupper(c) /\ <<c>> \in DOMAIN mapping THEN mapping[<<c>>] ELSE <<>>

\* one character of a production under the mapping
map_symbol(c, mapping) ==
  IF isupper(c) /\ <<c>> \in DOMAIN mapping THEN mapping[<<c>>] ELSE <<c>>

RECURSIVE map_production(_, _)
map_production(prod, mapping) ==
  IF prod = <<>> THEN <<>>
  ELSE map_symbol(Head(prod), mapping) \o map_production(Tail(prod), mapping)

\* the heads of the rules are left as they are
map_head_kept(nt, mapping) == nt

\* new head of a rule
map_head(nt, mapping) == IF nt \in DOMAIN mapping THEN mapping[nt] ELSE nt

apply_mapping(grammar, mapping) ==
  LET heads == {map_head(nt, mapping) : nt \in {n \in DOMAIN grammar : grammar[n] # {}}}
  IN [h \in heads |->
        UNION {{map_production(p, mapping) : p \in grammar[nt]} :
                 nt \in {n \in DOMAIN grammar : map_head(n, mapping) = h}}]

\* ------------------------------------------------------------------------
\* analyze_grammar_structure
\* ------------------------------------------------------------------------
\* only the keys that are one upper-case character are taken as non-terminals
upper_keys(grammar) ==
  {k \in DOMAIN grammar : Len(k) = 1 /\ isupper(k[1])}

\* set(grammar.keys())
find_non_terminals(grammar) == DOMAIN grammar

\* the counter a production increments: "epsilon" for '*', else by whether
\* it has terminals, non-terminals or both ("none" when it has neither)
classify(prod) ==
  LET has_nonterminal == \E i \in 1..Len(prod) : isupper(prod[i])
      has_terminal == \E i \in 1..Len(prod) : ~isupper(prod[i]) /\ prod[i] # "*"
  IN IF prod = <<"*">> THEN "epsilon"
     ELSE IF has_terminal /\ ~has_nonterminal THEN "terminals"
     ELSE IF has_nonterminal /\ ~has_terminal THEN "nt_only"
     ELSE IF has_terminal /\ has_nonterminal THEN "mixed"
     ELSE "none"

\* terminal_positions[c] after the productions prods have been scanned
RECURSIVE occurrences(_, _)
occurrences(prods, c) ==
  IF prods = {} THEN 0
  ELSE LET p == CHOOSE x \in prods : TRUE
       IN (IF p = <<"*">> THEN 0
           ELSE Cardinality({i \in 1..Len(p) : p[i] = c}))
          + occurrences(prods \ {p}, c)

\* the record features[nt] built from the productions of nt
features_of(prods) ==
  LET counted == {c \in UNION {{p[i] : i \in 1..Len(p)} : p \in prods \ {<<"*">>}} :
                    ~isupper(c) /\ c # "*"}
  IN [num_prods |-> Cardinality(prods),
      num_epsilon |-> Cardinality({p \in prods : classify(p) = "epsilon"}),
      num_terminals |-> Cardinality({p \in prods : classify(p) = "terminals"}),
      num_nt_only |-> Cardinality({p \in prods : classify(p) = "nt_only"}),
      num_mixed |-> Cardinality({p \in prods : classify(p) = "mixed"}),
      terminal_positions |-> [c \in counted |-> occurrences(prods, c)]]

analyze_grammar_structure(grammar) ==
  [nt \in find_non_terminals(grammar) |-> features_of(grammar[nt])]

\* ------------------------------------------------------------------------
\* try_symbol_mappings
\* ------------------------------------------------------------------------
\* len(nts1) <= 6
search_allowed(nts1) == Cardinality(nts1) <= 6

\* the start symbol not excluded
all_nts(nts, start) == nts

\* the non-terminals other than the start symbol
other_nts(nts, start) == {nt \in nts : nt # start}

RECURSIVE flatten(_)
flatten(ss) == IF ss = <<>> THEN <<>> ELSE Head(ss) \o flatten(Tail(ss))

remove_at(pool, i) == SubSeq(pool, 1, i-1) \o SubSeq(pool, i+1, Len(pool))

\* only the first permutation is produced
first_permutation_only(pool, r) ==
  IF r > Len(pool) THEN <<>> ELSE <<SubSeq(pool, 1, r)>>

\* itertools.permutations(pool, r), in the order it yields them
RECURSIVE permutations(_, _)
permutations(pool, r) ==
  IF r = 0 THEN << <<>> >>
  ELSE flatten([i \in 1..Len(pool) |->
                  LET sub == permutations(remove_at(pool, i), r - 1)
                  IN [k \in 1..Len(sub) |-> <<pool[i]>> \o sub[k]]])

\* mapping = {start1: start2}; mapping[nt] = perm[i] for nt in other_nts1
build_mapping(start1, start2, others1, perm) ==
  [nt \in {start1} \cup {others1[i] : i \in 1..Len(others1)} |->
     IF \E i \in 1..Len(others1) : others1[i] = nt
       THEN perm[CHOOSE i \in 1..Len(others1) : others1[i] = nt]
       ELSE start2]

\* the comparison gen1 == gen2 made for one candidate mapping
candidate_matches(grammar1, grammar2, start2, max_depth, mapping) ==
  generate_strings(apply_mapping(grammar1, mapping), start2, max_depth, DefaultMaxLen)
    = generate_strings(grammar2, start2, max_depth, DefaultMaxLen)

\* ------------------------------------------------------------------------
\* check_equivalence: the pieces that compute something
\* ------------------------------------------------------------------------
\* inclusion tested in place of equality
subset_of(a, b) == a \subseteq b

\* gen1 == gen2, gen1_mapped == gen2
same_set(a, b) == a = b

\* the difference taken the wrong way round
difference_swapped(a, b) == b \ a

\* gen1 - gen2
difference(a, b) == a \ b

\* the loop over permutations as a value: the first candidate that matches
RECURSIVE first_match(_, _, _, _, _, _, _)
first_match(g1, g2, s1, s2, d, o1, ps) ==
  IF ps = <<>> THEN None
  ELSE LET m == build_mapping(s1, s2, o1, Head(ps))
       IN IF candidate_matches(g1, g2, s2, d, m) THEN m
          ELSE first_match(g1, g2, s1, s2, d, o1, Tail(ps))

\* try_symbol_mappings as a value, when other_nts1 and other_nts2 come out
\* in the orders o1 and o2
try_symbol_mappings(g1, g2, s1, s2, d, o1, o2) ==
  IF search_allowed(find_non_terminals(g1))
    THEN first_match(g1, g2, s1, s2, d, o1, permutations(o2, Len(o1)))
    ELSE None

\* the value check_equivalence returns, for the same orders
check_equivalence(g1, g2, s1, s2, d, l, o1, o2) ==
  LET e1 == generate_strings(g1, s1, d, l)
      e2 == generate_strings(g2, s2, d, l)
      m == try_symbol_mappings(g1, g2, s1, s2, d, o1, o2)
  IN IF same_set(e1, e2) THEN TRUE
     ELSE IF truthy(m)
       THEN same_set(generate_strings(apply_mapping(g1, m), s2, d, l), e2)
       ELSE FALSE

\* ------------------------------------------------------------------------
\* parse_grammar
\* ------------------------------------------------------------------------
\* the characters str.strip() removes
Whitespace == {" ", "\n", "\t"}

\* the separator "->"
Arrow == <<"-", ">">>

\* the three characters of the alternative arrow token and the two of the
\* alternative epsilon token, as the source file spells them
ArrowGlyph == <<"u00E2", "u2020", "u2019">>
EpsilonGlyph == <<"u00CE", "u00B5">>

\* s.startswith(sub)
startswith(s, sub) == Len(s) >= Len(sub) /\ SubSeq(s, 1, Len(sub)) = sub

\* s.find(sub), 1-based; 0 when sub does not occur  (`sub in s`)
RECURSIVE find_from(_, _, _)
find_from(s, sub, i) ==
  IF i + Len(sub) - 1 > Len(s) THEN 0
  ELSE IF SubSeq(s, i, i + Len(sub) - 1) = sub THEN i
  ELSE find_from(s, sub, i + 1)

find(s, sub) == find_from(s, sub, 1)

\* s.replace(old, new)
RECURSIVE replace(_, _, _)
replace(s, old, new) ==
  IF s = <<>> THEN <<>>
  ELSE IF startswith(s, old)
    THEN new \o replace(SubSeq(s, Len(old) + 1, Len(s)), old, new)
  ELSE <<Head(s)>> \o replace(Tail(s), old, new)

\* s.strip()
RECURSIVE lstrip(_)
lstrip(s) ==
  IF s # <<>> /\ Head(s) \in Whitespace THEN lstrip(Tail(s)) ELSE s

RECURSIVE rstrip(_)
rstrip(s) ==
  IF s # <<>> /\ s[Len(s)] \in Whitespace
    THEN rstrip(SubSeq(s, 1, Len(s) - 1)) ELSE s

strip(s) == rstrip(lstrip(s))

\* s.split(sep) for a one-character separator
RECURSIVE split(_, _)
split(s, sep) ==
  LET i == find(s, <<sep>>)
  IN IF i = 0 THEN <<s>>
     ELSE <<SubSeq(s, 1, i - 1)>> \o split(SubSeq(s, i + 1, Len(s)), sep)

\* what one line adds to the dictionary: nothing without the separator,
\* else its non-empty trimmed alternatives under its trimmed head
parse_line(line) ==
  LET i == find(line, Arrow)
      head == strip(SubSeq(line, 1, i - 1))
      prods == split(SubSeq(line, i + Len(Arrow), Len(line)), "|")
      kept == {strip(prods[k]) : k \in 1..Len(prods)} \ {<<>>}
  IN IF i = 0 \/ kept = {} THEN <<>> ELSE head :> kept

\* grammar[head].append(prod) for the productions of one more line
add_line(grammar, line) ==
  LET new == parse_line(line)
  IN [k \in DOMAIN grammar \cup DOMAIN new |->
        (IF k \in DOMAIN grammar THEN grammar[k] ELSE {})
          \cup (IF k \in DOMAIN new THEN new[k] ELSE {})]

RECURSIVE parse_lines(_)
parse_lines(lines) ==
  IF lines = <<>> THEN <<>>
  ELSE add_line(parse_lines(SubSeq(lines, 1, Len(lines) - 1)), lines[Len(lines)])

\* the lines the parser loops over
lines_of(input_text) ==
  split(strip(replace(replace(input_text, ArrowGlyph, Arrow), EpsilonGlyph, <<"*">>)),
        "\n")

parse_grammar(input_text) == parse_lines(lines_of(input_text))

\* ------------------------------------------------------------------------
\* Inputs: the grammars, start symbols and bounds the model is run on
\* ------------------------------------------------------------------------
\* S -> a | b
G_ab ==
  (<<"S">> :> {<<"a">>, <<"b">>})

\* T -> a | b
G_T_ab ==
  (<<"T">> :> {<<"a">>, <<"b">>})

\* S -> Aa | b ; A -> a
G_Aa_b ==
  (<<"S">> :> {<<"A", "a">>, <<"b">>}) @@ (<<"A">> :> {<<"a">>})

\* S -> aa | b
G_aa_b ==
  (<<"S">> :> {<<"a", "a">>, <<"b">>})

\* S -> Aa ; A -> b
G_Aa ==
  (<<"S">> :> {<<"A", "a">>}) @@ (<<"A">> :> {<<"b">>})

\* S -> Bc ; B -> a
G_Bc ==
  (<<"S">> :> {<<"B", "c">>}) @@ (<<"B">> :> {<<"a">>})

\* S -> Ba ; B -> b
G_Ba ==
  (<<"S">> :> {<<"B", "a">>}) @@ (<<"B">> :> {<<"b">>})

\* S -> a ; a -> b   (a rule whose head is a lower-case letter)
G_lower ==
  (<<"S">> :> {<<"a">>}) @@ (<<"a">> :> {<<"b">>})

\* S -> A ; A -> a | **b
G_padA ==
  (<<"S">> :> {<<"A">>}) @@ (<<"A">> :> {<<"a">>, <<"*", "*", "b">>})

\* S -> B ; B -> a | b
G_Bab ==
  (<<"S">> :> {<<"B">>}) @@ (<<"B">> :> {<<"a">>, <<"b">>})

\* S -> a | **b
G_pad ==
  (<<"S">> :> {<<"a">>, <<"*", "*", "b">>})

\* S -> a | *
G_eps ==
  (<<"S">> :> {<<"a">>, <<"*">>})

\* S -> SS | a
G_rec ==
  (<<"S">> :> {<<"S", "S">>, <<"a">>})

\* S -> aS | a
G_right ==
  (<<"S">> :> {<<"a", "S">>, <<"a">>})

\* S -> A | * ; A -> S | a  (unit and epsilon cycle)
G_cycle ==
  (<<"S">> :> {<<"A">>, <<"*">>}) @@ (<<"A">> :> {<<"S">>, <<"a">>})

\* S -> Ab | B ; A -> a ; B -> Bb | A
G_mono ==
  (<<"S">> :> {<<"A", "b">>, <<"B">>}) @@ (<<"A">> :> {<<"a">>}) @@ (<<"B">> :> {<<"B", "b">>, <<"A">>})

\* S -> X ; A -> a ; B -> *a   (X has no rule)
G_dead1 ==
  (<<"S">> :> {<<"X">>}) @@ (<<"A">> :> {<<"a">>}) @@ (<<"B">> :> {<<"*", "a">>})

\* S -> X ; A -> a ; B -> b    (X has no rule)
G_dead2 ==
  (<<"S">> :> {<<"X">>}) @@ (<<"A">> :> {<<"a">>}) @@ (<<"B">> :> {<<"b">>})

\* S -> X ; A -> b ; B -> *a   (X has no rule)
G_dead3 ==
  (<<"S">> :> {<<"X">>}) @@ (<<"A">> :> {<<"b">>}) @@ (<<"B">> :> {<<"*", "a">>})

\* S -> X ; X -> a ; Y -> b
G_tgt ==
  (<<"S">> :> {<<"X">>}) @@ (<<"X">> :> {<<"a">>}) @@ (<<"Y">> :> {<<"b">>})

\* S -> a
G_a ==
  (<<"S">> :> {<<"a">>})

\* S -> a ; B -> b
G_a_extra ==
  (<<"S">> :> {<<"a">>}) @@ (<<"B">> :> {<<"b">>})

\* seven keys, X has no rule
G_big1 ==
  (<<"S">> :> {<<"X">>}) @@ (<<"A">> :> {<<"a">>}) @@ (<<"B">> :> {<<"b">>}) @@ (<<"C">> :> {<<"b">>}) @@ (<<"D">> :> {<<"b">>}) @@ (<<"E">> :> {<<"b">>}) @@ (<<"F">> :> {<<"b">>})

\* seven keys
G_big2 ==
  (<<"S">> :> {<<"X">>}) @@ (<<"X">> :> {<<"a">>}) @@ (<<"B">> :> {<<"b">>}) @@ (<<"C">> :> {<<"b">>}) @@ (<<"D">> :> {<<"b">>}) @@ (<<"E">> :> {<<"b">>}) @@ (<<"F">> :> {<<"b">>})

\* the input texts the parser is run on
Texts ==
  { \* "S->a|b\nA -> b"
    <<"S", "-", ">", "a", "|", "b", "\n", "A", " ", "-", ">", " ", "b">>,
    \* "S -> a\nA b\nA -> b"        (a line without separator)
    <<"S", " ", "-", ">", " ", "a", "\n", "A", " ", "b", "\n",
      "A", " ", "-", ">", " ", "b">>,
    \* " -> a\nS -> b"              (a line with an empty head)
    <<" ", "-", ">", " ", "a", "\n", "S", " ", "-", ">", " ", "b">>,
    \* "S -> a\n  -> b | a"         (an empty head after trimming)
    <<"S", " ", "-", ">", " ", "a", "\n", " ", " ", "-", ">", " ", "b",
      " ", "|", " ", "a">>,
    \* "S->a| |a\n\nS-> b |\nA->"   (empty alternatives, a blank line, repeats)
    <<"S", "-", ">", "a", "|", " ", "|", "a", "\n", "\n", "S", "-", ">", " ",
      "b", " ", "|", "\n", "A", "-", ">">>,
    \* "S <arrow> A | <epsilon>\nA->a->b"   (the alternative tokens, two arrows)
    <<"S", " ">> \o ArrowGlyph \o <<" ", "A", " ", "|", " ">> \o EpsilonGlyph
      \o <<"\n", "A", "-", ">", "a", "-", ">", "b">> }

Case(g1, g2, s1, s2) == [g1 |-> g1, g2 |-> g2, s1 |-> s1, s2 |-> s2]

Cases ==
  { Case(G_ab, G_T_ab, <<"S">>, <<"T">>),
    Case(G_Aa_b, G_aa_b, <<"S">>, <<"S">>),
    Case(G_Aa, G_Bc, <<"S">>, <<"S">>),
    Case(G_Aa, G_Ba, <<"S">>, <<"S">>),
    Case(G_eps, G_a, <<"S">>, <<"S">>),
    Case(G_pad, G_ab, <<"S">>, <<"S">>),
    Case(G_rec, G_right, <<"S">>, <<"S">>),
    Case(G_cycle, G_eps, <<"S">>, <<"S">>),
    Case(G_mono, G_Aa, <<"S">>, <<"S">>),
    Case(G_dead1, G_tgt, <<"S">>, <<"S">>),
    Case(G_dead2, G_tgt, <<"S">>, <<"S">>),
    Case(G_dead3, G_tgt, <<"S">>, <<"S">>),
    Case(G_a, G_a_extra, <<"S">>, <<"S">>),
    Case(G_Aa, G_a, <<"S">>, <<"S">>),
    Case(G_big1, G_big2, <<"S">>, <<"S">>),
    Case(G_Aa, G_Bc, <<"Z">>, <<"S">>),
    Case(G_Aa, G_Bc, <<"a">>, <<>>),
    Case(G_lower, G_ab, <<"S">>, <<"S">>),
    Case(G_padA, G_Bab, <<"S">>, <<"S">>) }

\* ------------------------------------------------------------------------
\* State
\* ------------------------------------------------------------------------
VARIABLES
  entry,        \* the function called: "check" (check_equivalence),
                \* "find" (try_symbol_mappings) or "parse" (parse_grammar)
  input_text,   \* argument of parse_grammar
  parsed,       \* value returned by parse_grammar
  grammar1, grammar2, start1, start2, max_depth, max_len,   \* its arguments
  pc,           \* position in check_equivalence / try_symbol_mappings
  glist,        \* the dictionary of production lists generate_strings is running on
  cola, visited, resultados,   \* locals of the running generate_strings
  gen1, gen2, gen1_mapped,     \* locals of check_equivalence
  others1,      \* other_nts1 as a list
  perms,        \* the permutations not yet tried
  tried,        \* number of candidate mappings evaluated
  features1, features2,   \* locals of try_symbol_mappings
  renamed,      \* the value returned by a direct call of apply_mapping
  mapping,      \* value returned by try_symbol_mappings
  result,       \* value returned by check_equivalence
  diff12, diff21   \* the two difference sets reported

inputs == <<entry, input_text, grammar1, grammar2, start1, start2, max_depth, max_len>>
loop == <<glist, cola, visited, resultados>>
search == <<others1, perms, tried>>
features == <<features1, features2>>
report == <<result, diff12, diff21>>
vars == <<inputs, parsed, renamed, features, pc, loop, gen1, gen2, gen1_mapped, search, mapping, report>>

nts1 == find_non_terminals(grammar1)
nts2 == find_non_terminals(grammar2)

\* generate_strings(grammar, start, max_depth, max_len) is entered
StartLoop(grammar, start) ==
  /\ glist' \in Listings(grammar)
  /\ cola' = loop_start(start).cola
  /\ visited' = loop_start(start).visited
  /\ resultados' = loop_start(start).resultados

\* the upper-case symbols of a grammar and a start symbol: keys, production
\* characters and the characters of the start symbol
Symbols(g, start) ==
  {k \in DOMAIN g : Len(k) = 1 /\ isupper(k[1])}
    \cup {<<c>> : c \in {x \in Upper : \E k \in DOMAIN g : \E q \in g[k] :
                                          \E i \in 1..Len(q) : q[i] = x}}
    \cup {<<start[i]>> : i \in {j \in 1..Len(start) : isupper(start[j])}}

\* the grammars and start symbols apply_mapping is called on directly
RenameCases ==
  { [g |-> G_mono, s |-> <<"S">>],
    [g |-> G_cycle, s |-> <<"S">>],
    [g |-> G_Aa_b, s |-> <<"S">>],
    [g |-> G_tgt, s |-> <<"S">>],
    [g |-> G_Aa, s |-> <<"Z">>],
    [g |-> G_right, s |-> <<"S">>] }

\* the one-to-one dictionaries from some symbols of g and start to symbols
\* of g and start or to the symbols Y and Z
Renamings(g, start) ==
  LET targets == Symbols(g, start) \cup {<<"Y">>, <<"Z">>}
  IN UNION {{m \in [D -> targets] : \A x, y \in D : x # y => m[x] # m[y]} :
              D \in SUBSET Symbols(g, start)}

\* the arguments of a call of check_equivalence or try_symbol_mappings
CallInit ==
  /\ entry \in {"check", "find"}
  /\ input_text = <<>>
  /\ \E c \in Cases :
       /\ grammar1 = c.g1 /\ grammar2 = c.g2
       /\ start1 = c.s1 /\ start2 = c.s2
  /\ max_depth \in 0..MaxDepth
  /\ max_len \in 0..MaxLen
  /\ mapping = None

\* the argument of a call of parse_grammar
ParseInit ==
  /\ entry = "parse"
  /\ input_text \in Texts
  /\ grammar1 = <<>> /\ grammar2 = <<>>
  /\ start1 = <<>> /\ start2 = <<>>
  /\ max_depth = 0 /\ max_len = 0
  /\ mapping = None

\* the arguments of a call of apply_mapping whose result is then enumerated
RenameInit ==
  /\ entry = "rename"
  /\ input_text = <<>>
  /\ \E c \in RenameCases :
       /\ grammar1 = c.g /\ start1 = c.s
       /\ mapping \in Renamings(c.g, c.s)
  /\ grammar2 = <<>> /\ start2 = <<>>
  /\ max_depth \in 0..MaxDepth
  /\ max_len \in 0..MaxLen

Init ==
  /\ CallInit \/ ParseInit \/ RenameInit
  /\ pc = CASE entry = "check" -> "gen1"
            [] entry = "find" -> "search"
            [] entry = "parse" -> "parse"
            [] entry = "rename" -> "apply"
  /\ IF entry = "check"
       THEN /\ glist \in Listings(grammar1)
            /\ cola = loop_start(start1).cola
       ELSE /\ glist = <<>>
            /\ cola = <<>>
  /\ visited = {} /\ resultados = {}
  /\ gen1 = {} /\ gen2 = {} /\ gen1_mapped = {}
  /\ others1 = <<>> /\ perms = <<>> /\ tried = 0
  /\ result = FALSE /\ diff12 = {} /\ diff21 = {}
  /\ parsed = <<>> /\ renamed = <<>>
  /\ features1 = <<>> /\ features2 = <<>>

\* ------------------------------------------------------------------------
\* parse_grammar
\* ------------------------------------------------------------------------
ParseGrammar ==
  /\ pc = "parse"
  /\ parsed' = parse_grammar(input_text)
  /\ pc' = "done"
  /\ UNCHANGED <<inputs, renamed, features, loop, gen1, gen2, gen1_mapped, search, mapping, report>>

\* ------------------------------------------------------------------------
\* apply_mapping
\* ------------------------------------------------------------------------
ApplyMapping ==
  /\ pc = "apply"
  /\ renamed' = apply_mapping(grammar1, mapping)
  /\ pc' = "done"
  /\ UNCHANGED <<inputs, parsed, features, loop, gen1, gen2, gen1_mapped, search, mapping, report>>

\* ------------------------------------------------------------------------
\* generate_strings, step by step
\* ------------------------------------------------------------------------
\* the element is read as cola[0] and never removed from the queue
LoopIterationPeek ==
  /\ pc \in {"gen1", "gen2", "mapped"}
  /\ cola # <<>>
  /\ LET b == loop_body(glist, [cola |-> <<Head(cola)>> \o cola, visited |-> visited,
                                resultados |-> resultados], max_depth, max_len)
     IN /\ cola' = b.cola
        /\ visited' = b.visited
        /\ resultados' = b.resultados
  /\ UNCHANGED <<inputs, parsed, renamed, features, pc, glist, gen1, gen2, gen1_mapped, search, mapping, report>>

\* one iteration of `while cola`
LoopIteration ==
  /\ pc \in {"gen1", "gen2", "mapped"}
  /\ cola # <<>>
  /\ LET b == loop_body(glist, [cola |-> cola, visited |-> visited,
                                resultados |-> resultados], max_depth, max_len)
     IN /\ cola' = b.cola
        /\ visited' = b.visited
        /\ resultados' = b.resultados
  /\ UNCHANGED <<inputs, parsed, renamed, features, pc, glist, gen1, gen2, gen1_mapped, search, mapping, report>>

\* ------------------------------------------------------------------------
\* check_equivalence
\* ------------------------------------------------------------------------
\* gen1 = generate_strings(grammar1, ...) returns; the call for grammar2 starts
Gen1Returns ==
  /\ pc = "gen1" /\ cola = <<>>
  /\ gen1' = resultados
  /\ StartLoop(grammar2, start2)
  /\ pc' = "gen2"
  /\ UNCHANGED <<inputs, parsed, renamed, features, gen2, gen1_mapped, search, mapping, report>>

\* gen2 returns and gen1 == gen2: return True
Gen2ReturnsEqual ==
  /\ pc = "gen2" /\ cola = <<>>
  /\ same_set(gen1, resultados)
  /\ gen2' = resultados
  /\ result' = TRUE
  /\ pc' = "done"
  /\ UNCHANGED <<inputs, parsed, renamed, features, loop, gen1, gen1_mapped, search, mapping, diff12, diff21>>

\* gen2 returns and the sets differ: try_symbol_mappings is called
Gen2ReturnsDifferent ==
  /\ pc = "gen2" /\ cola = <<>>
  /\ ~same_set(gen1, resultados)
  /\ gen2' = resultados
  /\ pc' = "search"
  /\ UNCHANGED <<inputs, parsed, renamed, features, loop, gen1, gen1_mapped, search, mapping, report>>

\* ------------------------------------------------------------------------
\* try_symbol_mappings
\* ------------------------------------------------------------------------
\* `return`: to check_equivalence, or to the caller of try_symbol_mappings
Return(m) ==
  /\ mapping' = m
  /\ pc' = IF entry = "check" THEN "returned" ELSE "done"

\* above the cutoff the initial guess possible_mappings[0] is returned
SearchSkippedReturnsGuess ==
  /\ pc = "search"
  /\ features1' = analyze_grammar_structure(grammar1)
  /\ features2' = analyze_grammar_structure(grammar2)
  /\ ~search_allowed(nts1)
  /\ Return(start1 :> start2)
  /\ UNCHANGED <<inputs, parsed, renamed, loop, gen1, gen2, gen1_mapped, search, report>>

\* more than 6 non-terminals: the loop over permutations is not entered
SearchSkipped ==
  /\ pc = "search"
  /\ features1' = analyze_grammar_structure(grammar1)
  /\ features2' = analyze_grammar_structure(grammar2)
  /\ ~search_allowed(nts1)
  /\ Return(None)
  /\ UNCHANGED <<inputs, parsed, renamed, loop, gen1, gen2, gen1_mapped, search, report>>

\* other_nts1, other_nts2 are listed and itertools.permutations is created
SearchStarts ==
  /\ pc = "search"
  /\ features1' = analyze_grammar_structure(grammar1)
  /\ features2' = analyze_grammar_structure(grammar2)
  /\ search_allowed(nts1)
  /\ \E o1 \in Orderings(other_nts(nts1, start1)),
        o2 \in Orderings(other_nts(nts2, start2)) :
       /\ others1' = o1
       /\ perms' = permutations(o2, Len(o1))
  /\ pc' = "perms"
  /\ UNCHANGED <<inputs, parsed, renamed, loop, gen1, gen2, gen1_mapped, tried, mapping, report>>

\* one iteration of the loop over permutations whose comparison succeeds
CandidateMatches ==
  /\ pc = "perms" /\ perms # <<>>
  /\ LET m == build_mapping(start1, start2, others1, Head(perms))
     IN /\ candidate_matches(grammar1, grammar2, start2, max_depth, m)
        /\ Return(m)
  /\ tried' = tried + 1
  /\ perms' = Tail(perms)
  /\ UNCHANGED <<inputs, parsed, renamed, features, loop, gen1, gen2, gen1_mapped, others1, report>>

\* one iteration of the loop over permutations whose comparison fails
CandidateFails ==
  /\ pc = "perms" /\ perms # <<>>
  /\ LET m == build_mapping(start1, start2, others1, Head(perms))
     IN ~candidate_matches(grammar1, grammar2, start2, max_depth, m)
  /\ tried' = tried + 1
  /\ perms' = Tail(perms)
  /\ UNCHANGED <<inputs, parsed, renamed, features, pc, loop, gen1, gen2, gen1_mapped, others1, mapping, report>>

\* the permutations are exhausted: return None
SearchExhausted ==
  /\ pc = "perms" /\ perms = <<>>
  /\ Return(None)
  /\ UNCHANGED <<inputs, parsed, renamed, features, loop, gen1, gen2, gen1_mapped, search, report>>

\* ------------------------------------------------------------------------
\* check_equivalence, after try_symbol_mappings
\* ------------------------------------------------------------------------
\* `if mapping:` the mapping is applied and the mapped grammar enumerated
MappingFound ==
  /\ pc = "returned"
  /\ truthy(mapping)
  /\ StartLoop(apply_mapping(grammar1, mapping), start2)
  /\ pc' = "mapped"
  /\ UNCHANGED <<inputs, parsed, renamed, features, gen1, gen2, gen1_mapped, search, mapping, report>>

\* `else:` no mapping, return False with the differences of the two sets
NoMapping ==
  /\ pc = "returned"
  /\ ~truthy(mapping)
  /\ result' = FALSE
  /\ diff12' = difference(gen1, gen2)
  /\ diff21' = difference(gen2, gen1)
  /\ pc' = "done"
  /\ UNCHANGED <<inputs, parsed, renamed, features, loop, gen1, gen2, gen1_mapped, search, mapping>>

\* the verdict of the search is taken over without comparing again
MappedReturnsTrusting ==
  /\ pc = "mapped" /\ cola = <<>>
  /\ gen1_mapped' = resultados
  /\ result' = TRUE
  /\ UNCHANGED <<diff12, diff21>>
  /\ pc' = "done"
  /\ UNCHANGED <<inputs, parsed, renamed, features, loop, gen1, gen2, search, mapping>>

\* gen1_mapped returns and is compared with gen2
MappedReturns ==
  /\ pc = "mapped" /\ cola = <<>>
  /\ gen1_mapped' = resultados
  /\ result' = same_set(resultados, gen2)
  /\ IF same_set(resultados, gen2)
       THEN UNCHANGED <<diff12, diff21>>
       ELSE /\ diff12' = difference(resultados, gen2)
            /\ diff21' = difference(gen2, resultados)
  /\ pc' = "done"
  /\ UNCHANGED <<inputs, parsed, renamed, features, loop, gen1, gen2, search, mapping>>

Next ==
  \/ ParseGrammar
  \/ ApplyMapping
  \/ LoopIteration
  \/ Gen1Returns
  \/ Gen2ReturnsEqual
  \/ Gen2ReturnsDifferent
  \/ SearchSkipped
  \/ SearchStarts
  \/ CandidateMatches
  \/ CandidateFails
  \/ SearchExhausted
  \/ MappingFound
  \/ NoMapping
  \/ MappedReturns

Spec == Init /\ [][Next]_vars

\* the program is sequential and runs on: a loop iteration that can be
\* executed eventually is
FairSpec == Spec /\ WF_vars(LoopIteration)

\* ------------------------------------------------------------------------
\* Properties
\* ------------------------------------------------------------------------
CheckDone == entry = "check" /\ pc = "done"

\* try_symbol_mappings has returned
SearchReturned ==
  \/ entry = "find" /\ pc = "done"
  \/ entry = "check" /\ pc \in {"returned", "mapped"}
  \/ entry = "check" /\ pc = "done" /\ gen1 # gen2

\* C1: check reports true exactly when the two enumerated sets are equal, or
\* they differ, the mapping search returned a mapping, and the grammar1 mapped
\* by it enumerates from start2 to grammar2's set; otherwise it reports false.
C1_Verdict ==
  CheckDone =>
    LET e1 == generate_strings(grammar1, start1, max_depth, max_len)
        e2 == generate_strings(grammar2, start2, max_depth, max_len)
    IN result =
         (\/ e1 = e2
          \/ /\ e1 # e2
             /\ truthy(mapping)
             /\ generate_strings(apply_mapping(grammar1, mapping), start2,
                                 max_depth, max_len) = e2)

\* check reported true through a mapping although the direct sets differ
C1_Witness == CheckDone /\ gen1 # gen2 /\ truthy(mapping) /\ result = TRUE

\* C2: every string of a set returned by the enumerator is at most max_len
\* long and contains no non-terminal character.
C2_ResultsBounded ==
  \A w \in resultados \cup gen1 \cup gen2 \cup gen1_mapped :
    Len(w) <= max_len /\ all_terminal(w)

\* a returned string of exactly max_len symbols
C2_Witness == CheckDone /\ max_len > 0 /\ \E w \in gen1 : Len(w) = max_len

\* C3: a set enumerated under (max_depth, max_len) is contained in the set
\* enumerated under any bounds at least as large, and contains the set
\* enumerated under any bounds at most as large.
C3_Monotonic ==
  CheckDone =>
    /\ \A d \in max_depth..MaxDepth : \A l \in max_len..MaxLen :
         /\ gen1 \subseteq generate_strings(grammar1, start1, d, l)
         /\ gen2 \subseteq generate_strings(grammar2, start2, d, l)
    /\ \A d \in 0..max_depth : \A l \in 0..max_len :
         /\ generate_strings(grammar1, start1, d, l) \subseteq gen1
         /\ generate_strings(grammar2, start2, d, l) \subseteq gen2

\* a non-empty set that larger bounds strictly enlarge
C3_Witness ==
  /\ CheckDone /\ gen1 # {}
  /\ \E d \in max_depth..MaxDepth : \E l \in max_len..MaxLen :
       gen1 # generate_strings(grammar1, start1, d, l)

\* C4: the work-queue loop of the enumerator terminates: whenever an
\* enumeration is running, its queue eventually becomes empty.
C4_LoopTerminates ==
  [](pc \in {"gen1", "gen2", "mapped"} => <>(cola = <<>>))

\* the loop has emptied its queue on a recursive grammar and on one with a
\* unit and epsilon cycle, with strings found
C4_Witness ==
  /\ grammar1 \in {G_rec, G_cycle} /\ max_depth = MaxDepth /\ max_len = MaxLen
  /\ pc = "gen1" /\ cola = <<>> /\ resultados # {}

\* the candidate mappings: start1 -> start2 plus an injective assignment of
\* grammar2's non-start non-terminals to all of grammar1's
Candidates ==
  LET o1 == nts1 \ {start1}
      o2 == nts2 \ {start2}
  IN {(start1 :> start2) @@ f :
        f \in {h \in [o1 -> o2] : \A x, y \in o1 : x # y => h[x] # h[y]}}

\* m makes the mapped grammar1 and grammar2 enumerate to the same set from
\* start2 under max_depth and the length cap l
MakesEqual(m, l) ==
  generate_strings(apply_mapping(grammar1, m), start2, max_depth, l)
    = generate_strings(grammar2, start2, max_depth, l)

\* C5: with at most 6 non-terminals in grammar1, the search returns a mapping
\* exactly when some candidate makes the sets equal under the default length
\* cap; a returned mapping is such a candidate, and nothing is returned only
\* after every candidate has been tried.
C5_Search ==
  (SearchReturned /\ Cardinality(nts1) <= 6) =>
    /\ truthy(mapping) <=> \E m \in Candidates : MakesEqual(m, 15)
    /\ truthy(mapping) => mapping \in Candidates /\ MakesEqual(mapping, 15)
    /\ ~truthy(mapping) => tried = Cardinality(Candidates)

\* a mapping returned after an earlier candidate failed, equal under the cap
\* of 15 and not under the caller's max_len
C5_Witness ==
  /\ SearchReturned /\ truthy(mapping) /\ tried > 1
  /\ ~MakesEqual(mapping, max_len)

\* C6: with more than 6 non-terminals in grammar1 the search evaluates no
\* candidate and returns nothing.
C6_Cutoff ==
  Cardinality(nts1) > 6 =>
    /\ pc # "perms"
    /\ tried = 0
    /\ SearchReturned => ~truthy(mapping)

\* nothing returned for 7 non-terminals although a candidate makes the sets
\* equal
C6_Witness ==
  /\ SearchReturned /\ Cardinality(nts1) > 6 /\ ~truthy(mapping)
  /\ \E m \in Candidates : MakesEqual(m, 15)

\* the upper-case characters occurring in the productions of g
UpperIn(g) ==
  {c \in Upper : \E k \in DOMAIN g : \E p \in g[k] : \E i \in 1..Len(p) : p[i] = c}

\* the identity mappings over the subsets of the symbols of g and start
IdentityMappings(g, start) ==
  {[k \in K |-> k] :
     K \in SUBSET (DOMAIN g \cup {<<c>> : c \in UpperIn(g)} \cup {start})}

\* C7: applying an identity mapping to a grammar leaves its enumerated set
\* unchanged, for every start symbol and bounds.
C7_Identity ==
  CheckDone =>
    /\ \A id \in IdentityMappings(grammar1, start1) :
         generate_strings(apply_mapping(grammar1, id), start1, max_depth, max_len)
           = gen1
    /\ \A id \in IdentityMappings(grammar2, start2) :
         generate_strings(apply_mapping(grammar2, id), start2, max_depth, max_len)
           = gen2
    /\ \A start \in DOMAIN grammar1 \cup {start2} :
         \A id \in IdentityMappings(grammar1, start) :
           generate_strings(apply_mapping(grammar1, id), start, max_depth, max_len)
             = generate_strings(grammar1, start, max_depth, max_len)

\* check itself applied an identity mapping and enumerated the same
\* non-empty set again
C7_Witness ==
  /\ CheckDone /\ truthy(mapping) /\ \A k \in DOMAIN mapping : mapping[k] = k
  /\ start1 = start2 /\ gen1 # {} /\ gen1_mapped = gen1

\* check has finished on the grammars of scenario C, with bounds that let
\* both derivations complete
ScenarioC ==
  /\ CheckDone
  /\ grammar1 = G_Aa /\ grammar2 = G_Bc /\ start1 = <<"S">> /\ start2 = <<"S">>
  /\ max_depth >= 2 /\ max_len >= 2

\* C8 as stated: gen1 = {ab}, gen2 = {ac}, one candidate that does not
\* match, equivalent=false with diff12 = {ab} and diff21 = {ac}.
C8_AsStated ==
  ScenarioC =>
    /\ gen1 = {<<"a", "b">>} /\ gen2 = {<<"a", "c">>}
    /\ Cardinality(Candidates) = 1 /\ tried = 1 /\ ~truthy(mapping)
    /\ result = FALSE
    /\ diff12 = {<<"a", "b">>} /\ diff21 = {<<"a", "c">>}

\* C8 amended: in scenario C, under max_depth >= 2 and max_len >= 2,
\* gen1 = {ba} and gen2 = {ac}, the single candidate A -> B does not match,
\* and check reports false with diff12 = {ba} and diff21 = {ac}.
C8_ScenarioC ==
  ScenarioC =>
    /\ gen1 = {<<"b", "a">>} /\ gen2 = {<<"a", "c">>}
    /\ Candidates = {(<<"S">> :> <<"S">>) @@ (<<"A">> :> <<"B">>)}
    /\ tried = 1 /\ ~truthy(mapping)
    /\ result = FALSE
    /\ diff12 = {<<"b", "a">>} /\ diff21 = {<<"a", "c">>}

C8_Witness == ScenarioC /\ max_depth = 2 /\ max_len = 2

\* the orders in which other_nts1 and other_nts2 can come out (the lists
\* are only built when the search is allowed)
SearchOrders ==
  IF search_allowed(nts1)
    THEN Orderings(other_nts(nts1, start1)) \X Orderings(other_nts(nts2, start2))
    ELSE {<< <<>>, <<>> >>}

\* C9: the generated sets and the verdict of check are the same for every
\* iteration order of the productions and of the non-terminal keys.
C9_OrderIndependent ==
  CheckDone =>
    /\ gen1 = generate_strings(grammar1, start1, max_depth, max_len)
    /\ gen2 = generate_strings(grammar2, start2, max_depth, max_len)
    /\ \A o \in SearchOrders :
         result = check_equivalence(grammar1, grammar2, start1, start2,
                                    max_depth, max_len, o[1], o[2])

Injective(m) == \A x, y \in DOMAIN m : x # y => m[x] # m[y]

Image(m) == {m[x] : x \in DOMAIN m}

\* C10 as stated: a returned mapping sends start1 to start2 and is a
\* bijection from grammar1's non-terminals onto grammar2's.
C10_AsStated ==
  (SearchReturned /\ truthy(mapping)) =>
    /\ mapping[start1] = start2
    /\ nts1 \subseteq DOMAIN mapping
    /\ Injective(mapping)
    /\ nts2 \subseteq Image(mapping)

\* C10 amended: a returned mapping sends start1 to start2, is defined on
\* start1 and every non-terminal of grammar1, is injective, and sends the
\* non-terminals of grammar1 other than start1 to non-terminals of grammar2
\* other than start2; it need not reach every non-terminal of grammar2.
C10_Injection ==
  (SearchReturned /\ truthy(mapping)) =>
    /\ mapping[start1] = start2
    /\ DOMAIN mapping = nts1 \cup {start1}
    /\ Injective(mapping)
    /\ \A nt \in nts1 \ {start1} : mapping[nt] \in nts2 \ {start2}

\* a returned mapping with a non-start non-terminal in it
C10_Witness ==
  SearchReturned /\ truthy(mapping) /\ Cardinality(DOMAIN mapping) > 1

\* C11 as stated: when the start symbol is not a key of the grammar the
\* enumerated set is empty, whatever the shape of the start symbol.
C11_AsStated ==
  CheckDone =>
    /\ start1 \notin DOMAIN grammar1 => gen1 = {}
    /\ start2 \notin DOMAIN grammar2 => gen2 = {}

\* s is one upper-case character
SingleUpper(s) == Len(s) = 1 /\ s[1] \in Upper

\* C11 amended: when the start symbol is a single upper-case character that
\* is not a key of the grammar, the enumerated set is empty for all bounds.
C11_UpperStart ==
  CheckDone =>
    /\ (start1 \notin DOMAIN grammar1 /\ SingleUpper(start1)) => gen1 = {}
    /\ (start2 \notin DOMAIN grammar2 /\ SingleUpper(start2)) => gen2 = {}

\* an enumeration from an upper-case start symbol without rules has run
\* under bounds that would let strings through
C11_Witness ==
  /\ CheckDone /\ start1 \notin DOMAIN grammar1 /\ SingleUpper(start1)
  /\ max_depth = MaxDepth /\ max_len = MaxLen /\ gen1 = {}

ParseDone == entry = "parse" /\ pc = "done"

\* the trimmed heads of the lines that have the separator and a head that
\* is not empty
ProperHeads ==
  LET lines == lines_of(input_text)
  IN {strip(SubSeq(lines[n], 1, find(lines[n], Arrow) - 1)) :
        n \in {k \in 1..Len(lines) : find(lines[k], Arrow) # 0}} \ {<<>>}

\* C12: a line without separator, or with an empty head, contributes no key
\* and no production to the parsed grammar: every key is the non-empty head
\* of a line that has the separator.
C12_MalformedDropped ==
  ParseDone => DOMAIN parsed \subseteq ProperHeads

\* try_symbol_mappings has been entered and has analysed both grammars
SearchEntered == pc \in {"perms", "returned", "mapped"} \/ SearchReturned

\* the non-terminals referenced in a production of g that are not keys
Undefined(g) == {<<c>> : c \in UpperIn(g)} \ DOMAIN g

AllZero(f) ==
  /\ f.num_prods = 0 /\ f.num_epsilon = 0 /\ f.num_terminals = 0
  /\ f.num_nt_only = 0 /\ f.num_mixed = 0

\* C13 as stated: there is a features record for every non-terminal of the
\* grammar, and a non-terminal referenced in a production without being a
\* key has a record with all counts zero.
C13_AsStated ==
  SearchEntered =>
    /\ DOMAIN grammar1 \subseteq DOMAIN features1
    /\ \A nt \in Undefined(grammar1) :
         nt \in DOMAIN features1 /\ AllZero(features1[nt])

\* C13 amended: there is a features record for every key of the grammar,
\* counting that key's productions, and for nothing else: a non-terminal
\* referenced in a production without being a key has no record.
C13_KeysOnly ==
  SearchEntered =>
    /\ DOMAIN features1 = DOMAIN grammar1
    /\ DOMAIN features2 = DOMAIN grammar2
    /\ \A nt \in DOMAIN grammar1 :
         features1[nt].num_prods = Cardinality(grammar1[nt])
    /\ \A nt \in Undefined(grammar1) : nt \notin DOMAIN features1

\* a grammar with an undefined non-terminal has been analysed
C13_Witness ==
  SearchEntered /\ Undefined(grammar1) # {} /\ DOMAIN features1 # {}

\* t results from s by replacing the leftmost upper-case character of s by
\* one of its productions in g
LeftmostStep(g, s, t) ==
  \E i \in 1..Len(s) :
    /\ s[i] \in Upper
    /\ \A j \in 1..(i - 1) : s[j] \notin Upper
    /\ <<s[i]>> \in DOMAIN g
    /\ \E p \in g[<<s[i]>>] : t = SubSeq(s, 1, i - 1) \o p \o SubSeq(s, i + 1, Len(s))

\* every form a leftmost step can lead to from s
Successors(g, s) ==
  IF \E i \in 1..Len(s) : s[i] \in Upper
  THEN LET i == CHOOSE k \in 1..Len(s) :
                  s[k] \in Upper /\ \A j \in 1..(k - 1) : s[j] \notin Upper
       IN IF <<s[i]>> \in DOMAIN g
          THEN {SubSeq(s, 1, i - 1) \o p \o SubSeq(s, i + 1, Len(s)) : p \in g[<<s[i]>>]}
          ELSE {}
  ELSE {}

\* the sentential forms sk of the leftmost derivations start = s0 => ... => sk
\* with k <= d whose forms s0..sk all have length <= l
RECURSIVE Forms(_, _, _, _)
Forms(g, start, d, l) ==
  IF d = 0 THEN (IF Len(start) <= l THEN {start} ELSE {})
  ELSE LET before == Forms(g, start, d - 1, l)
       IN before \cup {t \in UNION {Successors(g, s) : s \in before} : Len(t) <= l}

IsStar(c) == c = "*"
NotStar(c) == ~IsStar(c)

\* the terminal strings of those derivations, without their '*' markers
Derivable(g, start, d, l) ==
  {SelectSeq(w, NotStar) :
     w \in {s \in Forms(g, start, d, l) : \A i \in 1..Len(s) : s[i] \notin Upper}}

\* C14: enumerate returns exactly the stripped terminal strings that have a
\* leftmost derivation of at most maxDepth steps all of whose sentential
\* forms have length at most maxLen.
C14_ExactlyDerivable ==
  CheckDone =>
    /\ gen1 = Derivable(grammar1, start1, max_depth, max_len)
    /\ gen2 = Derivable(grammar2, start2, max_depth, max_len)
    /\ \A s \in Forms(grammar1, start1, max_depth, max_len) :
         \A t \in Successors(grammar1, s) : LeftmostStep(grammar1, s, t)

\* S -> a | **b with maxDepth 1 and maxLen 2: "a" is reached after exactly
\* maxDepth steps and is returned, "b" is short enough but its only
\* derivation passes through the form "**b" of length 3 and is not returned
C14_Witness ==
  /\ CheckDone /\ grammar1 = G_pad /\ start1 = <<"S">>
  /\ max_depth = 1 /\ max_len = 2
  /\ <<"a">> \in gen1
  /\ <<"a">> \notin Derivable(grammar1, start1, max_depth - 1, max_len)
  /\ <<"b">> \notin gen1
  /\ <<"b">> \in Derivable(grammar1, start1, max_depth, MaxLen)

\* all keys of both grammars and both start symbols are single upper-case
\* characters, and every upper-case character in a production of grammar1
\* is a key of grammar1 or is start1
WellFormed ==
  /\ \A k \in DOMAIN grammar1 \cup DOMAIN grammar2 \cup {start1, start2} :
       SingleUpper(k)
  /\ \A c \in UpperIn(grammar1) : <<c>> \in DOMAIN grammar1 \/ <<c>> = start1

\* C15: on well-formed input check returns true exactly when the two
\* enumerations under the given bounds are equal, whether or not the
\* mapping search returned a mapping.
C15_VerdictUnchanged ==
  (CheckDone /\ WellFormed) => (result = (gen1 = gen2))

\* on well-formed input the direct comparison failed, the search returned a
\* mapping that renames a non-terminal, and the final result is false
C15_Witness ==
  /\ CheckDone /\ WellFormed
  /\ gen1 # gen2 /\ truthy(mapping)
  /\ \E k \in DOMAIN mapping : mapping[k] # k
  /\ gen1_mapped = gen1
  /\ result = FALSE

\* apply_mapping has returned from a direct call
RenameDone == entry = "rename" /\ pc = "done"

\* no symbol that the mapping leaves alone is a target of the mapping
NoCapture ==
  \A c \in Symbols(grammar1, start1) \ DOMAIN mapping : c \notin Image(mapping)

\* C16: under a one-to-one mapping to single upper-case characters that
\* leaves no symbol of the grammar both unmapped and equal to a target (in
\* particular one that maps every symbol, swaps included), the renamed
\* grammar enumerated from the renamed start gives the same set as the
\* grammar enumerated from its start, under the same bounds.
C16_RenamingInvariant ==
  (RenameDone /\ NoCapture) =>
    generate_strings(renamed, map_production(start1, mapping), max_depth, max_len)
      = generate_strings(grammar1, start1, max_depth, max_len)

\* S -> Ab | B ; A -> a ; B -> Bb | A has been renamed by a mapping of all
\* its symbols that swaps A and B, and its enumeration is not empty
C16_Witness ==
  /\ RenameDone /\ grammar1 = G_mono
  /\ DOMAIN mapping = Symbols(grammar1, start1)
  /\ mapping[<<"A">>] = <<"B">> /\ mapping[<<"B">>] = <<"A">>
  /\ renamed # grammar1
  /\ max_depth = MaxDepth /\ max_len = MaxLen
  /\ generate_strings(grammar1, start1, max_depth, max_len) # {}

====
